---- MODULE Spec2Model ----
(***************************************************************************)
(* Model of the MPD project configuration module (src/mpd/config.py):      *)
(* the variant classifier, the requirement merger and the configuration    *)
(* store.                                                                  *)
(*                                                                         *)
(* A Python string is modelled as a sequence of lexical atoms: every sigil *)
(* of the spec mini-language ("@", "%", "+", "~", "=", "^", "[", "]", "/", *)
(* " ") is one atom and every maximal run of identifier/version characters *)
(* is one atom, so "cxxstd=20" is <<"cxxstd", "=", "20">> and              *)
(* "%gcc@9" is <<"%", "gcc", "@", "9">>.  Slicing, joining and tokenizing  *)
(* are computed on these sequences.  A Python dict is modelled as a        *)
(* sequence of [k, v] records in insertion order.                          *)
(***************************************************************************)
EXTENDS Integers, Sequences, FiniteSets, TLC

----------------------------------------------------------------------------
(* Strings *)

Sigils == {"@", "%", "+", "~", "=", "^", "[", "]", "/", " "}

Str(a) == <<a>>

\* Python's None where a string is expected; no token has an empty text.
None == <<>>

RECURSIVE Join(_)
\* " ".join(strings)
Join(strings) ==
    IF strings = <<>> THEN <<>>
    ELSE IF Len(strings) = 1 THEN strings[1]
    ELSE strings[1] \o <<" ">> \o Join(Tail(strings))

\* s[n:]
From(s, n) == SubSeq(s, n + 1, Len(s))

\* s[:n]
UpTo(s, n) == SubSeq(s, 1, IF n < Len(s) THEN n ELSE Len(s))

----------------------------------------------------------------------------
(* Dicts: sequences of [k |-> key, v |-> value] in insertion order *)

Keys(d) == {d[i].k : i \in 1..Len(d)}

Has(d, key) == \E i \in 1..Len(d) : d[i].k = key

Get(d, key) == d[CHOOSE i \in 1..Len(d) : d[i].k = key].v

\* d[key] = value: an existing key keeps its position
Put(d, key, value) ==
    IF Has(d, key)
    THEN [i \in 1..Len(d) |-> IF d[i].k = key THEN [k |-> key, v |-> value] ELSE d[i]]
    ELSE Append(d, [k |-> key, v |-> value])

\* d.pop(key): the dict without the key
Without(d, key) == SelectSeq(d, LAMBDA e : e.k # key)

RECURSIVE Update(_, _)
\* d.update(e)
Update(d, e) ==
    IF e = <<>> THEN d
    ELSE Update(Put(d, e[1].k, e[1].v), Tail(e))

\* list(d.values())
Values(d) == [i \in 1..Len(d) |-> d[i].v]

----------------------------------------------------------------------------
(* Token stream source: SpecParser(text).tokens() *)

IsWordAt(t, i) == i <= Len(t) /\ t[i] \notin Sigils

IsAt(t, i, a) == i <= Len(t) /\ t[i] = a

Tok(kind, t, i, n) == [kind |-> kind, value |-> SubSeq(t, i, i + n - 1)]

\* The token that starts at position i of t; the token kinds are tried in the
\* order of the tokenizer's alternation.
TokenAt(t, i) ==
    IF IsAt(t, i, "^") /\ IsAt(t, i + 1, "[") THEN Tok("START_EDGE_PROPERTIES", t, i, 2)
    ELSE IF IsAt(t, i, "]") THEN Tok("END_EDGE_PROPERTIES", t, i, 1)
    ELSE IF IsAt(t, i, "^") THEN Tok("DEPENDENCY", t, i, 1)
    ELSE IF IsAt(t, i, "@") /\ IsWordAt(t, i + 1) THEN Tok("VERSION", t, i, 2)
    ELSE IF t[i] \in {"+", "~"} /\ IsAt(t, i + 1, t[i]) /\ IsWordAt(t, i + 2)
        THEN Tok("PROPAGATED_BOOL_VARIANT", t, i, 3)
    ELSE IF t[i] \in {"+", "~"} /\ IsWordAt(t, i + 1) THEN Tok("BOOL_VARIANT", t, i, 2)
    ELSE IF IsWordAt(t, i) /\ IsAt(t, i + 1, "=") /\ IsAt(t, i + 2, "=") /\ IsWordAt(t, i + 3)
        THEN Tok("PROPAGATED_KEY_VALUE_PAIR", t, i, 4)
    ELSE IF IsWordAt(t, i) /\ IsAt(t, i + 1, "=") /\ IsWordAt(t, i + 2)
        THEN Tok("KEY_VALUE_PAIR", t, i, 3)
    ELSE IF IsAt(t, i, "%") /\ IsWordAt(t, i + 1) /\ IsAt(t, i + 2, "@") /\ IsWordAt(t, i + 3)
        THEN Tok("COMPILER_AND_VERSION", t, i, 4)
    ELSE IF IsAt(t, i, "%") /\ IsWordAt(t, i + 1) THEN Tok("COMPILER", t, i, 2)
    ELSE IF IsWordAt(t, i) THEN Tok("UNQUALIFIED_PACKAGE_NAME", t, i, 1)
    ELSE IF IsAt(t, i, "/") /\ IsWordAt(t, i + 1) THEN Tok("DAG_HASH", t, i, 2)
    ELSE IF IsAt(t, i, " ") THEN Tok("WS", t, i, 1)
    ELSE Tok("UNEXPECTED", t, i, 1)

RECURSIVE TokensFrom(_, _)

\* The token tok that starts at position i, white space dropped, and the tokens
\* after it
TokensAfter(tok, t, i) ==
    (IF tok.kind = "WS" THEN <<>> ELSE <<tok>>) \o TokensFrom(t, i + Len(tok.value))

TokensFrom(t, i) ==
    IF i > Len(t) THEN <<>> ELSE TokensAfter(TokenAt(t, i), t, i)

\* The tokens of a text, white space dropped
Tokens(t) == TokensFrom(t, 1)

\* The tokenizer raises on a text it cannot split into tokens
TokenizationError(toks) == \E i \in 1..Len(toks) : toks[i].kind = "UNEXPECTED"

----------------------------------------------------------------------------
(* Variant classifier *)

_variant_pair(value, variant) == [value |-> value, variant |-> variant]

_DEFAULT_CXXSTD == _variant_pair(<<"17">>, <<"cxxstd", "=", "17">>)
_DEFAULT_GENERATOR == _variant_pair(<<"make">>, <<"generator", "=", "make">>)
_DEVELOP_VARIANT == _variant_pair(<<"develop">>, <<"@", "develop">>)

\* Python's bool as the text of its value
Bool(b) == IF b THEN <<"True">> ELSE <<"False">>

\* s.strip()
RECURSIVE Strip(_)
Strip(s) ==
    IF s # <<>> /\ Head(s) = " " THEN Strip(Tail(s))
    ELSE IF s # <<>> /\ s[Len(s)] = " " THEN Strip(UpTo(s, Len(s) - 1))
    ELSE s

\* SPLIT_KVP.match(text).groups(): name, separator, value
SplitKvp(text) ==
    IF IsAt(text, 3, "=")
    THEN <<UpTo(text, 1), SubSeq(text, 2, 3), From(text, 3)>>
    ELSE <<UpTo(text, 1), SubSeq(text, 2, 2), From(text, 2)>>

\* handle_variant that files a token of any other kind under its own text
\* instead of dying
handle_variant_Lenient(token) ==
    IF token.kind \in {"COMPILER", "COMPILER_AND_VERSION"}
        THEN [die |-> FALSE, name |-> Str("compiler"),
              pair |-> _variant_pair(From(token.value, 1), token.value)]
    ELSE IF token.kind \in {"KEY_VALUE_PAIR", "PROPAGATED_KEY_VALUE_PAIR"}
        THEN [die |-> FALSE, name |-> SplitKvp(token.value)[1],
              pair |-> _variant_pair(SplitKvp(token.value)[3], token.value)]
    ELSE IF token.kind = "BOOL_VARIANT"
        THEN [die |-> FALSE, name |-> Strip(From(token.value, 1)),
              pair |-> _variant_pair(Bool(UpTo(token.value, 1) = <<"+">>), token.value)]
    ELSE IF token.kind = "PROPAGATED_BOOL_VARIANT"
        THEN [die |-> FALSE, name |-> Strip(From(token.value, 2)),
              pair |-> _variant_pair(Bool(UpTo(token.value, 2) = <<"+", "+">>), token.value)]
    ELSE IF token.kind = "VERSION"
        THEN [die |-> FALSE, name |-> Str("version"),
              pair |-> _variant_pair(From(token.value, 1), token.value)]
    ELSE [die |-> FALSE, name |-> token.value,
          pair |-> _variant_pair(From(token.value, 1), token.value)]

\* handle_variant(token): [name, pair], or die on any other token kind
handle_variant(token) ==
    IF token.kind \in {"COMPILER", "COMPILER_AND_VERSION"}
        THEN [die |-> FALSE, name |-> Str("compiler"),
              pair |-> _variant_pair(From(token.value, 1), token.value)]
    ELSE IF token.kind \in {"KEY_VALUE_PAIR", "PROPAGATED_KEY_VALUE_PAIR"}
        THEN LET groups == SplitKvp(token.value)
             IN  [die |-> FALSE, name |-> groups[1],
                  pair |-> _variant_pair(groups[3], token.value)]
    ELSE IF token.kind = "BOOL_VARIANT"
        THEN [die |-> FALSE, name |-> Strip(From(token.value, 1)),
              pair |-> _variant_pair(Bool(UpTo(token.value, 1) = <<"+">>), token.value)]
    ELSE IF token.kind = "PROPAGATED_BOOL_VARIANT"
        THEN [die |-> FALSE, name |-> Strip(From(token.value, 2)),
              pair |-> _variant_pair(Bool(UpTo(token.value, 2) = <<"+", "+">>), token.value)]
    ELSE IF token.kind = "VERSION"
        THEN [die |-> FALSE, name |-> Str("version"),
              pair |-> _variant_pair(From(token.value, 1), token.value)]
    ELSE [die |-> TRUE, name |-> None, pair |-> _variant_pair(None, token.value)]

----------------------------------------------------------------------------
(* Serializer *)

\* ordered_requirement_list with the compiler put before the version
ordered_requirement_list_CompilerFirst(requirements) ==
    LET version == IF Has(requirements, Str("version")) THEN Get(requirements, Str("version"))
                   ELSE None
        compiler == IF Has(requirements, Str("compiler")) THEN Get(requirements, Str("compiler"))
                    ELSE None
        rest == Without(Without(requirements, Str("version")), Str("compiler"))
    IN  (IF compiler # <<>> THEN <<compiler>> ELSE <<>>)
        \o (IF version # <<>> THEN <<version>> ELSE <<>>)
        \o Values(rest)

\* ordered_requirement_list with the compiler popped but not appended
ordered_requirement_list_DropsCompiler(requirements) ==
    LET version == IF Has(requirements, Str("version")) THEN Get(requirements, Str("version"))
                   ELSE None
        rest == Without(Without(requirements, Str("version")), Str("compiler"))
    IN  (IF version # <<>> THEN <<version>> ELSE <<>>) \o Values(rest)

\* ordered_requirement_list with the remaining variants in reverse order
ordered_requirement_list_Reversed(requirements) ==
    LET version == IF Has(requirements, Str("version")) THEN Get(requirements, Str("version"))
                   ELSE None
        compiler == IF Has(requirements, Str("compiler")) THEN Get(requirements, Str("compiler"))
                    ELSE None
        rest == Values(Without(Without(requirements, Str("version")), Str("compiler")))
    IN  (IF version # <<>> THEN <<version>> ELSE <<>>)
        \o (IF compiler # <<>> THEN <<compiler>> ELSE <<>>)
        \o [i \in 1..Len(rest) |-> rest[Len(rest) + 1 - i]]

\* ordered_requirement_list(requirements) for a dict of variant texts:
\* the truthy "version" and "compiler" entries first, then the other values
ordered_requirement_list(requirements) ==
    LET version == IF Has(requirements, Str("version")) THEN Get(requirements, Str("version"))
                   ELSE None
        compiler == IF Has(requirements, Str("compiler")) THEN Get(requirements, Str("compiler"))
                    ELSE None
        rest == Without(Without(requirements, Str("version")), Str("compiler"))
    IN  (IF version # <<>> THEN <<version>> ELSE <<>>)
        \o (IF compiler # <<>> THEN <<compiler>> ELSE <<>>)
        \o Values(rest)

----------------------------------------------------------------------------
(* Package existence check *)

\* The package catalog (PATH.get_pkg_class): the known packages and the
\* variants each declares (has_variant / pkg.variants)
KnownPackages == Str("foo") :> {Str("cxxstd"), Str("generator"), Str("debug")}

\* The directory names that can appear under a project's source directory,
\* in sorted() order; "bar" is not a known package
DirOrder == <<Str("bar"), Str("foo")>>

DirNames == {DirOrder[i] : i \in 1..Len(DirOrder)}

\* sorted(names)
Sorted(names) == SelectSeq(DirOrder, LAMBDA p : p \in names)

\* One iteration of the scan loop.  pkg_cls is <<>> while the local variable
\* is unbound; reading it unbound raises UnboundLocalError.
ScanStep(s, p) ==
    IF s.raised THEN s
    ELSE IF p \in DOMAIN KnownPackages
        THEN [s EXCEPT !.pkg_cls = <<p>>,
                       !.packages_to_develop = Put(@, p, p)]
    ELSE IF s.pkg_cls = <<>>
        THEN [s EXCEPT !.unknown_packages = Append(@, p), !.raised = TRUE]
    ELSE [s EXCEPT !.unknown_packages = Append(@, p),
                   !.packages_to_develop = Put(@, p, s.pkg_cls[1])]

RECURSIVE Scan(_, _)
Scan(s, srcs_repos) ==
    IF srcs_repos = <<>> THEN s ELSE Scan(ScanStep(s, Head(srcs_repos)), Tail(srcs_repos))

\* Lines 140-149 once the loop has ended in s: the exception of line 140, the
\* fatal error of lines 142-147, or the packages to develop
Scanned(s) ==
    IF s.raised
        THEN [status |-> "raise", error |-> "UnboundLocalError", msg |-> <<>>,
              packages_to_develop |-> <<>>]
    ELSE IF s.unknown_packages # <<>>
        THEN [status |-> "die", error |-> "unknown packages", msg |-> s.unknown_packages,
              packages_to_develop |-> <<>>]
    ELSE [status |-> "ok", error |-> "", msg |-> <<>>,
          packages_to_develop |-> s.packages_to_develop]

\* spack_packages(srcs_dir), dirs being the non-hidden subdirectories of
\* srcs_dir: the packages to develop (a dict from name to package class), or
\* the fatal unknown-package error with the offending paths, or the exception
spack_packages(dirs) ==
    Scanned(Scan([pkg_cls |-> <<>>, unknown_packages |-> <<>>,
                  packages_to_develop |-> <<>>, raised |-> FALSE], Sorted(dirs)))

\* maybe_has_variant(name) or name in pkg.variants
Declares(pkg, name) == name \in KnownPackages[pkg]

----------------------------------------------------------------------------
(* Requirement merger: the token walk *)

WalkInit ==
    [general_variant_map |-> <<>>, package_variant_map |-> <<>>,
     dependency_variant_map |-> <<>>, virtual_package |-> None,
     virtual_dependency |-> FALSE, virtual_dependencies |-> <<>>,
     concrete_package_expected |-> FALSE, dependency |-> FALSE,
     variant_map |-> [map |-> "general", key |-> None], die |-> FALSE]

\* d.setdefault(key, default) as the dict afterwards
SetDefault(d, key, default) == IF Has(d, key) THEN d ELSE Put(d, key, default)

\* variant_map[name] = variant_pair, variant_map being a reference to the
\* general map or to one entry of the package or dependency map
WriteVariant(w, name, pair) ==
    IF w.variant_map.map = "general"
        THEN [w EXCEPT !.general_variant_map = Put(@, name, pair)]
    ELSE IF w.variant_map.map = "package"
        THEN [w EXCEPT !.package_variant_map =
                  Put(@, w.variant_map.key, Put(Get(@, w.variant_map.key), name, pair))]
    ELSE [w EXCEPT !.dependency_variant_map =
              Put(@, w.variant_map.key, Put(Get(@, w.variant_map.key), name, pair))]

\* As WriteClassified, with the key=value of an edge also written into the
\* current variant map
WriteClassified_AlsoWrites(w, hv) ==
    IF hv.die THEN [w EXCEPT !.die = TRUE]
    ELSE IF w.virtual_dependency
        THEN WriteVariant([w EXCEPT !.virtual_package = hv.pair.value], hv.name, hv.pair)
    ELSE WriteVariant(w, hv.name, hv.pair)

\* Lines 185-189, hv being what handle_variant gave for the token
WriteClassified(w, hv) ==
    IF hv.die THEN [w EXCEPT !.die = TRUE]
    ELSE IF w.virtual_dependency THEN [w EXCEPT !.virtual_package = hv.pair.value]
    ELSE WriteVariant(w, hv.name, hv.pair)

\* The body of the loop over the tokens of the new variants
WalkStep(w, token) ==
    IF w.die THEN w
    ELSE IF token.kind = "DEPENDENCY" THEN [w EXCEPT !.dependency = TRUE]
    ELSE IF token.kind = "START_EDGE_PROPERTIES" THEN [w EXCEPT !.virtual_dependency = TRUE]
    ELSE IF token.kind = "END_EDGE_PROPERTIES"
        THEN [w EXCEPT !.virtual_dependency = FALSE, !.concrete_package_expected = TRUE]
    ELSE IF token.kind = "UNQUALIFIED_PACKAGE_NAME"
        THEN IF w.concrete_package_expected
             THEN LET vd == SetDefault(w.virtual_dependencies, w.virtual_package, <<>>)
                  IN  [w EXCEPT !.virtual_dependencies =
                                    Put(vd, w.virtual_package,
                                        Append(Get(vd, w.virtual_package), token.value)),
                                !.virtual_package = None,
                                !.concrete_package_expected = FALSE]
             ELSE IF w.dependency
                 THEN [w EXCEPT !.dependency_variant_map = SetDefault(@, token.value, <<>>),
                                !.variant_map = [map |-> "dependency", key |-> token.value]]
             ELSE [w EXCEPT !.package_variant_map = SetDefault(@, token.value, <<>>),
                            !.variant_map = [map |-> "package", key |-> token.value]]
    ELSE WriteClassified(w, handle_variant(token))

RECURSIVE Walk(_, _)
Walk(w, tokens) ==
    IF tokens = <<>> THEN w ELSE Walk(WalkStep(w, Head(tokens)), Tail(tokens))

----------------------------------------------------------------------------
(* Requirement merger: project-level settings *)

\* project_cfg["compiler"] = None: a falsy value, unlike every variant pair
NoneValue == _variant_pair(None, None)

\* A key of the project config is a set: empty when the key is absent, else
\* holding its value.  project_config_from_args: the config before the merge
\* (the directory keys are fixed by the project's name).
NewProjectConfig(name) ==
    [name |-> name, compiler |-> {}, cxxstd |-> {}, generator |-> {}, variants |-> {},
     packages |-> <<>>, dependencies |-> <<>>, status |-> {}, installed |-> {}]

TheValue(field) == CHOOSE x \in field : TRUE

\* Lines 191-197: the compiler of this run, else the stored one, else None
ResolveCompiler(project_cfg, general) ==
    IF Has(general, Str("compiler")) THEN {Get(general, Str("compiler"))}
    ELSE IF project_cfg.compiler = {} THEN {NoneValue}
    ELSE project_cfg.compiler

\* As ResolveVariant, with the stored value passed over
ResolveVariant_IgnoresStored(stored, general, name, default) ==
    IF Has(general, name) THEN {Get(general, name)} ELSE {default}

\* Lines 199-211: a general variant of this run, else the stored one, else the default
ResolveVariant(stored, general, name, default) ==
    IF Has(general, name) THEN {Get(general, name)}
    ELSE IF stored = {} THEN {default}
    ELSE stored

\* The general map after the three pops
RemainingGeneral(general) ==
    Without(Without(Without(general, Str("compiler")), Str("cxxstd")), Str("generator"))

\* Lines 213-214
ResolveVariants(project_cfg, variants) ==
    IF variants # <<>> THEN {Join(variants)} ELSE project_cfg.variants

----------------------------------------------------------------------------
(* Requirement merger: per-package requirements *)

\* Lines 230-231, hv being what handle_variant gave for the token: die is set
\* when handle_variant dies
StoreParsed(r, hv) ==
    IF hv.die THEN [r EXCEPT !.die = TRUE]
    ELSE [r EXCEPT !.req = Put(@, hv.name, hv.pair.variant)]

RECURSIVE ParseStored(_, _)
\* Lines 229-231: pkg_requirements[name] = variant["variant"] for each token
\* of the stored require list, up to the first token handle_variant dies on
\* (a text the tokenizer cannot split ends there too)
ParseStored(r, tokens) ==
    IF tokens = <<>> \/ r.die THEN r
    ELSE ParseStored(StoreParsed(r, handle_variant(Head(tokens))), Tail(tokens))

\* Lines 226-231
ExistingRequirements(packages, p) ==
    ParseStored([req |-> <<>>, die |-> FALSE],
                Tokens(Join(IF Has(packages, p) THEN Get(packages, p) ELSE <<>>)))

RECURSIVE ApplyGeneral(_, _, _)
\* Lines 244-248: the general variants the package declares
ApplyGeneral(pkg_requirements, general, pkg) ==
    IF general = <<>> THEN pkg_requirements
    ELSE ApplyGeneral(IF Declares(pkg, general[1].k)
                          THEN Put(pkg_requirements, general[1].k, general[1].v.variant)
                          ELSE pkg_requirements,
                      Tail(general), pkg)

\* {k: v["variant"] for k, v in d.items()}
OnlyVariants(d) == [i \in 1..Len(d) |-> [k |-> d[i].k, v |-> d[i].v.variant]]

\* d[key] = value under a condition
PutIf(condition, d, key, value) == IF condition THEN Put(d, key, value) ELSE d

\* Line 250: the package-scoped settings given for p
ScopedVariants(package_variant_map, p) ==
    IF Has(package_variant_map, p) THEN OnlyVariants(Get(package_variant_map, p)) ELSE <<>>

\* MergeRequirements with the package-scoped settings applied before the
\* project-level and general ones instead of after them
MergeRequirements_ScopedFirst(existing, p, pkg, compiler, cxxstd, generator, general, package_variant_map) ==
    ApplyGeneral(
        PutIf(Declares(pkg, Str("generator")),
              PutIf(Declares(pkg, Str("cxxstd")),
                    PutIf(compiler # NoneValue,
                          Put(Update(existing, ScopedVariants(package_variant_map, p)),
                              Str("version"), _DEVELOP_VARIANT.variant),
                          Str("compiler"), compiler.variant),
                    Str("cxxstd"), cxxstd.variant),
              Str("generator"), generator.variant),
        general, pkg)

\* MergeRequirements with the stored version and compiler kept when the
\* stored list has them, instead of overwritten
MergeRequirements_KeepStored(existing, p, pkg, compiler, cxxstd, generator, general, package_variant_map) ==
    Update(
        ApplyGeneral(
            PutIf(Declares(pkg, Str("generator")),
                  PutIf(Declares(pkg, Str("cxxstd")),
                        PutIf(compiler # NoneValue /\ ~Has(existing, Str("compiler")),
                              PutIf(~Has(existing, Str("version")), existing,
                                    Str("version"), _DEVELOP_VARIANT.variant),
                              Str("compiler"), compiler.variant),
                        Str("cxxstd"), cxxstd.variant),
                  Str("generator"), generator.variant),
            general, pkg),
        ScopedVariants(package_variant_map, p))

\* Lines 233-251: the requirement map of package p of class pkg, from the
\* requirements parsed from its stored list.  From the inside out: the
\* version (234), the compiler (235-236), cxxstd (238-239), generator
\* (240-241), the remaining general variants (244-248), the package-scoped
\* settings (250-251)
MergeRequirements(existing, p, pkg, compiler, cxxstd, generator, general, package_variant_map) ==
    Update(
        ApplyGeneral(
            PutIf(Declares(pkg, Str("generator")),
                  PutIf(Declares(pkg, Str("cxxstd")),
                        PutIf(compiler # NoneValue,
                              Put(existing, Str("version"), _DEVELOP_VARIANT.variant),
                              Str("compiler"), compiler.variant),
                        Str("cxxstd"), cxxstd.variant),
                  Str("generator"), generator.variant),
            general, pkg),
        ScopedVariants(package_variant_map, p))

\* Lines 226-253 for package p of class pkg, existing being the requirements
\* parsed from its stored list
MergePackage(acc, p, pkg, existing, compiler, cxxstd, generator, general, package_variant_map) ==
    IF existing.die THEN [acc EXCEPT !.die = TRUE]
    ELSE [acc EXCEPT !.packages =
              Put(@, p, ordered_requirement_list(
                  MergeRequirements(existing.req, p, pkg, compiler, cxxstd, generator,
                                    general, package_variant_map)))]

RECURSIVE MergePackages(_, _, _, _, _, _, _)
\* Lines 224-253: the loop over the packages to develop; acc.packages starts
\* as the stored packages that still exist
MergePackages(acc, todo, compiler, cxxstd, generator, general, package_variant_map) ==
    IF todo = <<>> \/ acc.die THEN acc
    ELSE MergePackages(
             MergePackage(acc, todo[1].k, todo[1].v, ExistingRequirements(acc.packages, todo[1].k),
                          compiler, cxxstd, generator, general, package_variant_map),
             Tail(todo), compiler, cxxstd, generator, general, package_variant_map)

\* Prune that keeps every stored package
Prune_KeepsAll(packages, packages_to_develop) == packages

\* Line 222: the stored packages that are still packages to develop
Prune(packages, packages_to_develop) ==
    SelectSeq(packages, LAMBDA e : Has(packages_to_develop, e.k))

----------------------------------------------------------------------------
(* Requirement merger: dependencies and the whole run *)

\* Lines 256-258 for one dependency scope.  only_variants iterates the dict
\* of the scope, that is its keys, and indexes each key, a string, by
\* "variant": TypeError.  For a scope without variants only_variants is the
\* empty list, and ordered_requirement_list calls pop(name, None) on it, which
\* a list does not accept: TypeError.
dependency_requirement(requirements) ==
    [status |-> "raise", error |-> "TypeError", require |-> <<>>]

RECURSIVE MergeDependencies(_, _)
\* Lines 255-258: acc.dependencies starts as the stored dependencies
MergeDependencies(acc, todo) ==
    IF todo = <<>> \/ acc.status # "ok" THEN acc
    ELSE LET d == dependency_requirement(todo[1].v)
         IN  IF d.status # "ok"
             THEN [acc EXCEPT !.status = d.status, !.error = d.error]
             ELSE MergeDependencies(
                     [acc EXCEPT !.dependencies =
                         Put(@, todo[1].k, [require |-> d.require, providers |-> <<>>])],
                     Tail(todo))

\* Lines 261-262
StoreProviders(dependency_requirements, virtual_dependencies) ==
    IF virtual_dependencies # <<>>
    THEN Put(dependency_requirements, Str("all"),
             [require |-> <<>>, providers |-> virtual_dependencies])
    ELSE dependency_requirements

Failure(status, error, msg, project_cfg) ==
    [status |-> status, error |-> error, msg |-> msg, cfg |-> project_cfg]

\* Lines 260-266, deps being the outcome of the loop over the dependencies:
\* its exception, or the merged project config
StoreMerged(project_cfg, variants, w, compiler, cxxstd, generator, packages, deps) ==
    IF deps.status # "ok" THEN Failure(deps.status, deps.error, <<>>, project_cfg)
    ELSE [status |-> "ok", error |-> "", msg |-> <<>>,
          cfg |-> [project_cfg EXCEPT
                      !.compiler = compiler, !.cxxstd = cxxstd, !.generator = generator,
                      !.variants = ResolveVariants(project_cfg, variants),
                      !.packages = packages,
                      !.dependencies = StoreProviders(deps.dependencies,
                                                      w.virtual_dependencies)]]

\* Lines 255-266, merged being the outcome of the loop over the packages
HandleDependencies(project_cfg, variants, w, compiler, cxxstd, generator, merged) ==
    IF merged.die THEN Failure("die", "unsupported token", <<>>, project_cfg)
    ELSE StoreMerged(project_cfg, variants, w, compiler, cxxstd, generator, merged.packages,
                     MergeDependencies([dependencies |-> project_cfg.dependencies,
                                        status |-> "ok", error |-> ""],
                                       w.dependency_variant_map))

\* Lines 217-266, scan being the outcome of spack_packages
HandlePackages(project_cfg, variants, w, compiler, cxxstd, generator, scan) ==
    IF scan.status # "ok" THEN Failure(scan.status, scan.error, scan.msg, project_cfg)
    ELSE HandleDependencies(
             project_cfg, variants, w, compiler, cxxstd, generator,
             MergePackages([packages |-> Prune(project_cfg.packages, scan.packages_to_develop),
                            die |-> FALSE],
                           scan.packages_to_develop, TheValue(compiler), TheValue(cxxstd),
                           TheValue(generator), RemainingGeneral(w.general_variant_map),
                           w.package_variant_map))

\* Lines 191-266, w being the maps at the end of the token walk
HandleWalked(project_cfg, variants, dirs, w) ==
    IF w.die THEN Failure("die", "unsupported token", <<>>, project_cfg)
    ELSE HandlePackages(
             project_cfg, variants, w,
             ResolveCompiler(project_cfg, w.general_variant_map),
             ResolveVariant(project_cfg.cxxstd, w.general_variant_map,
                            Str("cxxstd"), _DEFAULT_CXXSTD),
             ResolveVariant(project_cfg.generator, w.general_variant_map,
                            Str("generator"), _DEFAULT_GENERATOR),
             spack_packages(dirs))

\* Lines 155-266, tokens_from_str being the tokens of the new variants
HandleTokens(project_cfg, variants, dirs, tokens_from_str) ==
    IF TokenizationError(tokens_from_str)
        THEN Failure("raise", "SpecTokenizationError", <<>>, project_cfg)
    ELSE HandleWalked(project_cfg, variants, dirs, Walk(WalkInit, tokens_from_str))

\* handle_variants(project_cfg, variants), dirs being the non-hidden
\* subdirectories of project_cfg["source"]: the merged project config, or how
\* the run ended instead
handle_variants(project_cfg, variants, dirs) ==
    HandleTokens(project_cfg, variants, dirs, Tokens(Join(variants)))

----------------------------------------------------------------------------
(* Inputs *)

\* The words a command line is made of
Words ==
    {<<"cxxstd", "=", "20">>, <<"cxxstd", "=", "17">>, <<"%", "gcc", "@", "9">>,
     <<"%", "clang">>, <<"@", "1.2">>, <<"+", "debug">>, <<"~", "mt">>, <<"foo">>,
     <<"^", "dep">>, <<"/", "abc">>}

\* The most words typed on the command lines of one history
MaxWords == 3

RECURSIVE LinesUpTo(_)
LinesUpTo(n) ==
    IF n = 0 THEN {<<>>}
    ELSE LET shorter == LinesUpTo(n - 1)
         IN  shorter \cup {Append(l, word) : l \in shorter, word \in Words}

\* Lines[n]: the command lines of at most n words
Lines == [n \in 0..MaxWords |-> LinesUpTo(n)]

----------------------------------------------------------------------------
(* State *)

VARIABLES
    doc,      \* the global configuration document: whether the file exists, and its projects
    srcdirs,  \* the non-hidden subdirectories of each project's source directory
    result,   \* the last command and how it ended
    typed,    \* the number of words and commands typed so far
    proc,     \* per process: the command it is in, and the document it has read
    written,  \* per project: the config a process last wrote to the document for it, if any
    fn,       \* the serializer's input and outputs
    tokens,   \* per session id: the project named by its selected-project token, if any
    alive,    \* the session ids whose process exists
    environ,  \* per session: its MPD_PROJECT and its active Spack environment
    environments,  \* the projects whose local directory is an environment, and the named ones
    areas,    \* per project: its build, install and local directories and what they hold
    instance  \* the Spack instance: writeable or not, the local directory, the user's repos

\* The sessions, the Spack environments and the directories around the commands
surroundings == <<tokens, alive, environ, environments, areas, instance>>

vars == <<doc, srcdirs, result, typed, proc, written, fn, surroundings>>

Projects == {Str("mu2e"), Str("dune")}

\* The project of the merger runs
TheProject == Str("mu2e")

\* The processes that run commands at the same time
Procs == {"s1", "s2"}

NoDocument == [exists |-> FALSE, projects |-> <<>>]

\* The record of a command of the merger: what it was given, how it ended,
\* whether it changed the document, and whether it repeats a successful run
\* without new variants on the same project and source directories
Ended(cmd, project, variants, outcome, changed) ==
    [cmd |-> cmd, project |-> project, variants |-> variants,
     status |-> outcome.status, error |-> outcome.error, msg |-> outcome.msg,
     changed |-> changed,
     again |-> /\ variants = <<>>
               /\ result.cmd \in {"new-project", "refresh"}
               /\ result.status = "ok"
               /\ result.variants = <<>>
               /\ result.project = project]

NoCommand(cmd, name) ==
    [cmd |-> cmd, project |-> name, variants |-> <<>>,
     status |-> "ok", error |-> "", msg |-> <<>>, changed |-> FALSE, again |-> FALSE]

FileSystemChanged(name) == NoCommand("fs", name)

Idle ==
    [pc |-> "idle", config |-> NoDocument, project_cfg |-> NewProjectConfig(None),
     variants |-> <<>>]

NoRequirements == [stage |-> "none", requirements |-> <<>>, list |-> <<>>, parsed |-> <<>>]

\* A directory is a set: empty when the directory does not exist, else holding
\* the set of the files in it
NoDirectories == [build |-> {}, install |-> {}, local |-> {}]

\* No token, no project directory, a writeable Spack instance in a fresh home
\* directory, every session running in a shell without MPD_PROJECT and without
\* an active environment, no environment made
InitSurroundings ==
    /\ tokens = [s \in Procs |-> None]
    /\ alive = Procs
    /\ environ = [s \in Procs |-> [MPD_PROJECT |-> None, active_environment |-> {}]]
    /\ environments = [dirs |-> {}, names |-> {}]
    /\ areas = [n \in Projects |-> NoDirectories]
    /\ instance = [writeable |-> TRUE, local_dir |-> FALSE, repos |-> <<>>]

InitStore ==
    /\ InitSurroundings
    /\ doc = NoDocument
    /\ result = NoCommand("none", None)
    /\ typed = 0
    /\ proc = [p \in Procs |-> Idle]
    /\ written = [n \in Projects |-> {}]

Init ==
    /\ InitStore
    /\ srcdirs = [n \in Projects |-> {}]
    /\ fn = NoRequirements

----------------------------------------------------------------------------
(* Configuration store *)

\* update(project_config), lines 306-321, on the document read: the entry of
\* the project set, the document created when the file does not exist
update(config, project_config) ==
    [exists |-> TRUE, projects |-> Put(config.projects, project_config.name, project_config)]

\* refresh, lines 339-342, on the document read: the document with the entry
\* of the project set to what handle_variants returned
refresh(config, project_name, project_cfg) ==
    [config EXCEPT !.projects = Put(@, project_name, project_cfg)]

\* new-project from the end of handle_variants: update when it returned a
\* config, the file left as it is when it did not
NewProjectEnds(name, variants, outcome) ==
    /\ doc' = IF outcome.status = "ok" THEN update(doc, outcome.cfg) ELSE doc
    /\ written' = IF outcome.status = "ok"
                    THEN [written EXCEPT ![name] = {outcome.cfg}] ELSE written
    /\ result' = Ended("new-project", name, variants, outcome, doc' # doc)

\* The new-project command run alone: project_config_from_args, then update
NewProject(name, variants) ==
    /\ ~Has(doc.projects, name)
    /\ NewProjectEnds(name, variants,
                      handle_variants(NewProjectConfig(name), variants, srcdirs[name]))
    /\ typed' = typed + Len(variants)
    /\ UNCHANGED <<srcdirs, proc, fn, surroundings>>

\* refresh from the end of handle_variants, config being the document the
\* command read: the write when it returned a config, the file left as it is
\* when it did not
RefreshEnds(config, name, variants, outcome) ==
    /\ doc' = IF outcome.status = "ok" THEN refresh(config, name, outcome.cfg) ELSE doc
    /\ written' = IF outcome.status = "ok"
                    THEN [written EXCEPT ![name] = {outcome.cfg}] ELSE written
    /\ result' = Ended("refresh", name, variants, outcome, doc' # doc)

\* refresh(project_name, new_variants) run alone
Refresh(name, variants) ==
    /\ doc.exists
    /\ Has(doc.projects, name)
    /\ RefreshEnds(doc, name, variants,
                   handle_variants(Get(doc.projects, name), variants, srcdirs[name]))
    /\ typed' = typed + Len(variants)
    /\ UNCHANGED <<srcdirs, proc, fn, surroundings>>

\* A repository is cloned into, or a directory made in, the source directory
MkDir(name, d) ==
    /\ d \notin srcdirs[name]
    /\ srcdirs' = [srcdirs EXCEPT ![name] = @ \cup {d}]
    /\ result' = FileSystemChanged(name)
    /\ UNCHANGED <<doc, typed, proc, written, fn, surroundings>>

\* A directory is deleted from the source directory
RmDir(name, d) ==
    /\ d \in srcdirs[name]
    /\ srcdirs' = [srcdirs EXCEPT ![name] = @ \ {d}]
    /\ result' = FileSystemChanged(name)
    /\ UNCHANGED <<doc, typed, proc, written, fn, surroundings>>

Next ==
    \/ \E variants \in Lines[MaxWords - typed] : NewProject(TheProject, variants)
    \/ \E variants \in Lines[MaxWords - typed] : Refresh(TheProject, variants)
    \/ \E d \in DirNames : MkDir(TheProject, d)
    \/ \E d \in DirNames : RmDir(TheProject, d)

\* The commands of one user, one at a time, on one project
Spec == Init /\ [][Next]_vars

----------------------------------------------------------------------------
(* Commands given virtual-provider edges and project-level variants *)

\* The words of these command lines: an edge, two provider or package names,
\* and the two project-level variants
EdgeWords ==
    {<<"^", "[", "virtuals", "=", "mpi", "]">>, <<"mpich">>, <<"foo">>,
     <<"cxxstd", "=", "20">>, <<"generator", "=", "ninja">>}

\* The most words typed on these command lines in one history
MaxEdgeWords == 4

RECURSIVE EdgeLinesUpTo(_)
EdgeLinesUpTo(n) ==
    IF n = 0 THEN {<<>>}
    ELSE {<<>>} \cup {<<word>> \o l : word \in EdgeWords, l \in EdgeLinesUpTo(n - 1)}

\* EdgeLines[n]: the command lines of at most n of these words
EdgeLines == [n \in 0..MaxEdgeWords |-> EdgeLinesUpTo(n)]

NextEdges ==
    \/ \E variants \in EdgeLines[MaxEdgeWords - typed] : NewProject(TheProject, variants)
    \/ \E variants \in EdgeLines[MaxEdgeWords - typed] : Refresh(TheProject, variants)
    \/ \E d \in DOMAIN KnownPackages : MkDir(TheProject, d)
    \/ \E d \in DOMAIN KnownPackages : RmDir(TheProject, d)

\* The commands of one user on one project whose source directory holds
\* known packages only
SpecEdges == Init /\ [][NextEdges]_vars

----------------------------------------------------------------------------
(* Serializer and re-tokenizer on their own *)

\* Canonical variant strings: the texts of the tokens the classifier supports
CanonicalVariants ==
    {<<"@", "develop">>, <<"@", "1.2">>, <<"%", "gcc", "@", "9">>, <<"%", "clang">>,
     <<"cxxstd", "=", "17">>, <<"generator", "=", "make">>, <<"cxxstd", "=", "=", "20">>,
     <<"+", "debug">>, <<"~", "debug">>, <<"+", "+", "mt">>, <<"version", "=", "3">>}

\* The most canonical variant strings a requirement set is built from
MaxRequirements == 3

RECURSIVE RequirementListsUpTo(_)
RequirementListsUpTo(n) ==
    IF n = 0 THEN {<<>>}
    ELSE LET shorter == RequirementListsUpTo(n - 1)
         IN  shorter \cup {Append(l, text) : l \in shorter, text \in CanonicalVariants}

RECURSIVE RequirementSet(_)
\* The requirement map of a sequence of canonical variant strings: each under
\* the name the classifier gives its token, the last one of a name kept
RequirementSet(texts) ==
    IF texts = <<>> THEN <<>>
    ELSE LET text == texts[Len(texts)]
         IN  Put(RequirementSet(UpTo(texts, Len(texts) - 1)),
                 handle_variant(TokenAt(text, 1)).name, text)

InitSerializer ==
    /\ InitStore
    /\ srcdirs = [n \in Projects |-> {}]
    /\ \E texts \in RequirementListsUpTo(MaxRequirements) :
           fn = [stage |-> "map", requirements |-> RequirementSet(texts),
                 list |-> <<>>, parsed |-> <<>>]

\* ordered_requirement_list(requirements)
Serialize ==
    /\ fn.stage = "map"
    /\ fn' = [fn EXCEPT !.stage = "list", !.list = ordered_requirement_list(fn.requirements)]
    /\ UNCHANGED <<doc, srcdirs, result, typed, proc, written, surroundings>>

\* The list read back as handle_variants reads a stored require list
Retokenize ==
    /\ fn.stage = "list"
    /\ LET existing == ExistingRequirements(<<[k |-> Str("foo"), v |-> fn.list]>>, Str("foo"))
       IN  fn' = [fn EXCEPT !.stage = IF existing.die THEN "die" ELSE "parsed",
                            !.parsed = existing.req]
    /\ UNCHANGED <<doc, srcdirs, result, typed, proc, written, surroundings>>

NextSerializer == Serialize \/ Retokenize

SpecSerializer == InitSerializer /\ [][NextSerializer]_vars
----------------------------------------------------------------------------
(* Commands of several processes on the one document *)

\* The words of the command lines of commands run beside one another
StoreWords == {<<"cxxstd", "=", "20">>, <<"%", "clang">>}

\* The most words typed on these command lines in one history
MaxStoreWords == 1

RECURSIVE StoreLinesUpTo(_)
StoreLinesUpTo(n) ==
    IF n = 0 THEN {<<>>}
    ELSE LET shorter == StoreLinesUpTo(n - 1)
         IN  shorter \cup {Append(l, word) : l \in shorter, word \in StoreWords}

StoreLines == StoreLinesUpTo(IF typed < MaxStoreWords THEN MaxStoreWords - typed ELSE 0)

InitConcurrent ==
    /\ InitStore
    /\ srcdirs = [n \in Projects |-> {Str("foo")}]
    /\ fn = NoRequirements

\* update's read of the document (lines 300-304) when handle_variants
\* returned a config; the end of the command when it did not
BeginUpdate(p, name, variants, outcome) ==
    IF outcome.status = "ok"
    THEN /\ proc' = [proc EXCEPT ![p] = [pc |-> "update", config |-> doc,
                                         project_cfg |-> outcome.cfg,
                                         variants |-> variants]]
         /\ UNCHANGED result
    ELSE /\ result' = Ended("new-project", name, variants, outcome, FALSE)
         /\ UNCHANGED proc

\* new-project up to update's read of the document (lines 300-304)
BeginNewProject(p, name, variants) ==
    /\ proc[p].pc = "idle"
    /\ ~Has(doc.projects, name)
    /\ \A q \in Procs : proc[q].pc = "idle" \/ proc[q].project_cfg.name # name
    /\ BeginUpdate(p, name, variants,
                   handle_variants(NewProjectConfig(name), variants, srcdirs[name]))
    /\ typed' = typed + Len(variants)
    /\ UNCHANGED <<doc, srcdirs, written, fn, surroundings>>

\* FinishUpdate writing the document as it is now with the entry set, as if
\* read and write were one step
FinishUpdate_Transactional(p) ==
    /\ proc[p].pc = "update"
    /\ doc' = update(doc, proc[p].project_cfg)
    /\ written' = [written EXCEPT ![proc[p].project_cfg.name] = {proc[p].project_cfg}]
    /\ result' = Ended("new-project", proc[p].project_cfg.name, proc[p].variants,
                       [status |-> "ok", error |-> "", msg |-> <<>>], doc' # doc)
    /\ proc' = [proc EXCEPT ![p] = Idle]
    /\ UNCHANGED <<srcdirs, typed, fn, surroundings>>

\* update's write of the document (lines 316-321)
FinishUpdate(p) ==
    /\ proc[p].pc = "update"
    /\ doc' = update(proc[p].config, proc[p].project_cfg)
    /\ written' = [written EXCEPT ![proc[p].project_cfg.name] = {proc[p].project_cfg}]
    /\ result' = Ended("new-project", proc[p].project_cfg.name, proc[p].variants,
                       [status |-> "ok", error |-> "", msg |-> <<>>], doc' # doc)
    /\ proc' = [proc EXCEPT ![p] = Idle]
    /\ UNCHANGED <<srcdirs, typed, fn, surroundings>>

\* refresh up to its read of the document and of the project's entry (lines 325-333)
BeginRefresh(p, name, variants) ==
    /\ proc[p].pc = "idle"
    /\ doc.exists
    /\ Has(doc.projects, name)
    /\ \A q \in Procs : proc[q].pc = "idle" \/ proc[q].project_cfg.name # name
    /\ proc' = [proc EXCEPT ![p] = [pc |-> "refresh", config |-> doc,
                                    project_cfg |-> Get(doc.projects, name),
                                    variants |-> variants]]
    /\ typed' = typed + Len(variants)
    /\ UNCHANGED <<doc, srcdirs, result, written, fn, surroundings>>

\* refresh from the merge to the write of the document (lines 335-342)
FinishRefresh(p) ==
    /\ proc[p].pc = "refresh"
    /\ RefreshEnds(proc[p].config, proc[p].project_cfg.name, proc[p].variants,
                   handle_variants(proc[p].project_cfg, proc[p].variants,
                                   srcdirs[proc[p].project_cfg.name]))
    /\ proc' = [proc EXCEPT ![p] = Idle]
    /\ UNCHANGED <<srcdirs, typed, fn, surroundings>>

NextConcurrent ==
    \/ \E p \in Procs, name \in Projects : \E variants \in StoreLines :
           BeginNewProject(p, name, variants)
    \/ \E p \in Procs : FinishUpdate(p)
    \/ \E p \in Procs, name \in Projects : \E variants \in StoreLines :
           BeginRefresh(p, name, variants)
    \/ \E p \in Procs : FinishRefresh(p)

\* Two processes, each running commands on a project of its own
SpecConcurrent == InitConcurrent /\ [][NextConcurrent]_vars
----------------------------------------------------------------------------
(* Selected-project tokens and the store operations of the sessions *)

\* The most commands typed in one history of the sessions
MaxCommands == 4

\* No session: a change that is not a command of a session
NoSession == ""

\* The record of a command of a session: its arguments and how it ended
Did(cmd, s, project, args, status, error, changed) ==
    [cmd |-> cmd, project |-> project, variants |-> <<>>,
     status |-> status, error |-> error, msg |-> <<>>, changed |-> changed,
     again |-> FALSE, session |-> s, args |-> args]

\* Lines 309-314: the given config with the markers that are not falsy
WithMarkers(project_config, status, installed_at) ==
    [project_config EXCEPT !.status = IF status # None THEN {status} ELSE @,
                           !.installed = IF installed_at # None THEN {installed_at} ELSE @]

\* update(project_config, status, installed_at), lines 299-321
UpdateEntry(s, project_config, status, installed_at) ==
    /\ s \in alive
    /\ typed < MaxCommands
    /\ doc' = update(doc, WithMarkers(project_config, status, installed_at))
    /\ result' = Did("update", s, project_config.name,
                     [project_config |-> project_config, status |-> status,
                      installed_at |-> installed_at], "ok", "", doc' # doc)
    /\ typed' = typed + 1
    /\ UNCHANGED <<srcdirs, proc, written, fn, surroundings>>

\* As rm_config, with every entry deleted
rm_config_DeletesAll(config, project_name) ==
    IF ~config.exists THEN [status |-> "raise", error |-> "UnboundLocalError", config |-> config]
    ELSE IF ~Has(config.projects, project_name)
        THEN [status |-> "raise", error |-> "KeyError", config |-> config]
    ELSE [status |-> "ok", error |-> "", config |-> [config EXCEPT !.projects = <<>>]]

\* rm_config(project_name), lines 348-361, on the document in the file:
\* config is not bound at line 354 when the file does not exist (349), the
\* del of line 358 raises when the entry is absent, and the file is written
\* (359-361) only after it
rm_config(config, project_name) ==
    IF ~config.exists THEN [status |-> "raise", error |-> "UnboundLocalError", config |-> config]
    ELSE IF ~Has(config.projects, project_name)
        THEN [status |-> "raise", error |-> "KeyError", config |-> config]
    ELSE [status |-> "ok", error |-> "", config |-> [config EXCEPT !.projects = Without(@, project_name)]]

RmConfigEnds(s, project_name, outcome) ==
    /\ doc' = outcome.config
    /\ result' = Did("rm_config", s, project_name, <<>>, outcome.status, outcome.error,
                     doc' # doc)

RmConfig(s, project_name) ==
    /\ s \in alive
    /\ typed < MaxCommands
    /\ RmConfigEnds(s, project_name, rm_config(doc, project_name))
    /\ typed' = typed + 1
    /\ UNCHANGED <<srcdirs, proc, written, fn, surroundings>>

\* As select, with the name written to the token of every session
select_EverySession(selected, session_id, name) ==
    [t \in DOMAIN selected |-> name]

\* select(name), lines 479-483, selected being the token files
select(selected, session_id, name) ==
    [selected EXCEPT ![session_id] = name]

Select(s, name) ==
    /\ s \in alive
    /\ typed < MaxCommands
    /\ tokens' = select(tokens, s, name)
    /\ result' = Did("select", s, name, <<>>, "ok", "", FALSE)
    /\ typed' = typed + 1
    /\ UNCHANGED <<doc, srcdirs, proc, written, fn, alive, environ, environments, areas, instance>>

\* selected_project(), lines 433-437, missing_ok being True: the text of the
\* token of the session, None when there is no such file
selected_project(selected, session_id) == selected[session_id]

SelectedProject(s) ==
    /\ s \in alive
    /\ typed < MaxCommands
    /\ result' = Did("selected_project", s, selected_project(tokens, s), <<>>, "ok", "", FALSE)
    /\ typed' = typed + 1
    /\ UNCHANGED <<doc, srcdirs, proc, written, fn, surroundings>>

\* Lines 400-407: the status of a project whose local directory is no
\* environment and the installed marker of a project without a named
\* environment are deleted
Reconciled(name, proj_config, envs) ==
    [proj_config EXCEPT !.status = IF name \in envs.dirs THEN @ ELSE {},
                        !.installed = IF name \in envs.names THEN @ ELSE {}]

ReconcileAll(projects, envs) ==
    [i \in 1..Len(projects) |->
        [k |-> projects[i].k, v |-> Reconciled(projects[i].k, projects[i].v, envs)]]

\* Lines 414-421: the tokens of the sessions whose process does not exist and
\* the tokens that name no project of the document are unlinked
RemoveStale(selected, running, projects) ==
    [t \in DOMAIN selected |->
        IF t \in running /\ Has(projects, selected[t]) THEN selected[t] ELSE None]

\* The places in the document of the projects whose local path holds the path
\* of the active environment
Matching(projects, active_env) ==
    {i \in 1..Len(projects) : \E path \in active_env : projects[i].k \in path}

\* The last place of a set of places
Last(places) == CHOOSE i \in places : \A j \in places : j <= i

\* Lines 423-430: the token of the calling session written for every
\* matching project in turn, so that the last one stays
ImplicitlySelect(selected, session_id, projects, matching) ==
    IF matching = {} THEN selected
    ELSE [selected EXCEPT ![session_id] = projects[Last(matching)].k]

\* update_cache(), lines 390-430: nothing is done without a document or
\* without projects in it (392-398)
UpdateCache(s) ==
    /\ s \in alive
    /\ typed < MaxCommands
    /\ IF ~doc.exists \/ doc.projects = <<>>
       THEN UNCHANGED <<doc, tokens>>
       ELSE /\ doc' = [doc EXCEPT !.projects = ReconcileAll(@, environments)]
            /\ tokens' = ImplicitlySelect(RemoveStale(tokens, alive, doc.projects), s,
                                          doc.projects,
                                          Matching(doc.projects, environ[s].active_environment))
    /\ result' = Did("update_cache", s, None, <<>>, "ok", "", doc' # doc)
    /\ typed' = typed + 1
    /\ UNCHANGED <<srcdirs, proc, written, fn, alive, environ, environments, areas, instance>>

\* The process of a session ends
Exit(s) ==
    /\ s \in alive
    /\ typed < MaxCommands
    /\ alive' = alive \ {s}
    /\ result' = Did("exit", s, None, <<>>, "ok", "", FALSE)
    /\ typed' = typed + 1
    /\ UNCHANGED <<doc, srcdirs, proc, written, fn, tokens, environ, environments, areas, instance>>

\* The paths an active environment can have, each given by the projects whose
\* local path holds it
EnvPaths == {{}, {Str("mu2e")}, {Str("dune")}, Projects}

\* spack env activate / deactivate in the shell of a session: active_env is
\* empty, or holds the path of the environment
Activate(s, active_env) ==
    /\ s \in alive
    /\ typed < MaxCommands
    /\ environ[s].active_environment # active_env
    /\ environ' = [environ EXCEPT ![s].active_environment = active_env]
    /\ result' = Did("env", s, None, <<>>, "ok", "", FALSE)
    /\ typed' = typed + 1
    /\ UNCHANGED <<doc, srcdirs, proc, written, fn, tokens, alive, environments, areas, instance>>

\* An environment is made in, or removed from, the local directory of a project
EnvDir(name) ==
    /\ typed < MaxCommands
    /\ environments' = [environments EXCEPT
                            !.dirs = IF name \in @ THEN @ \ {name} ELSE @ \cup {name}]
    /\ result' = Did("env", NoSession, name, <<>>, "ok", "", FALSE)
    /\ typed' = typed + 1
    /\ UNCHANGED <<doc, srcdirs, proc, written, fn, tokens, alive, environ, areas, instance>>

\* A named environment is installed or uninstalled
EnvName(name) ==
    /\ typed < MaxCommands
    /\ environments' = [environments EXCEPT
                            !.names = IF name \in @ THEN @ \ {name} ELSE @ \cup {name}]
    /\ result' = Did("env", NoSession, name, <<>>, "ok", "", FALSE)
    /\ typed' = typed + 1
    /\ UNCHANGED <<doc, srcdirs, proc, written, fn, tokens, alive, environ, areas, instance>>

\* The entry of project name in a document, as a set: empty when absent
EntryOf(projects, name) == IF Has(projects, name) THEN {Get(projects, name)} ELSE {}

\* The markers update is called with
Markers == {None, Str("ready")}

NextSessions ==
    \/ \E s \in Procs, name \in Projects, status \in Markers, installed_at \in Markers :
           \E project_config \in {NewProjectConfig(name)} \cup EntryOf(doc.projects, name) :
               UpdateEntry(s, project_config, status, installed_at)
    \/ \E s \in Procs, name \in Projects : RmConfig(s, name)
    \/ \E s \in Procs, name \in Projects : Select(s, name)
    \/ \E s \in Procs : SelectedProject(s)
    \/ \E s \in Procs : UpdateCache(s)
    \/ \E s \in Procs : Exit(s)
    \/ \E s \in Procs, active_env \in {{}} \cup {{path} : path \in EnvPaths} :
           Activate(s, active_env)
    \/ \E name \in Projects : EnvDir(name)
    \/ \E name \in Projects : EnvName(name)

\* Two sessions running the store and selection operations one after another
SpecSessions == Init /\ [][NextSessions]_vars
----------------------------------------------------------------------------
(* Commands: new-project, build, rm-project, zap, init *)

\* The files a build leaves in a directory
Built == {"o"}

\* path.mkdir(exist_ok=True): a directory that exists keeps what it holds
MkDirExistOk(dir) == IF dir = {} THEN {{}} ELSE dir

\* prepare_project_directories, lines 81-89: build and local made under top
prepare_project_directories(dirs) ==
    [dirs EXCEPT !.build = MkDirExistOk(@), !.local = MkDirExistOk(@)]

\* new-project without variants, on a source directory without packages:
\* the directories made, then the merger and update as in NewProject
CreateProject(name) ==
    /\ typed < MaxCommands
    /\ ~Has(doc.projects, name)
    /\ srcdirs[name] = {}
    /\ NewProjectEnds(name, <<>>, handle_variants(NewProjectConfig(name), <<>>, {}))
    /\ areas' = [areas EXCEPT ![name] = prepare_project_directories(@)]
    /\ typed' = typed + 1
    /\ UNCHANGED <<srcdirs, proc, fn, tokens, alive, environ, environments, instance>>

\* How a command that dies or raises ends
Fatal(error) == [status |-> "die", error |-> error, cfg |-> NewProjectConfig(None)]

\* project_config(name), lines 364-387, missing_ok being False
project_config(config, name) ==
    IF ~config.exists THEN Fatal("Missing MPD configuration")
    ELSE IF ~Has(config.projects, name) THEN Fatal("Project not supported by MPD configuration")
    ELSE [status |-> "ok", error |-> "", cfg |-> Get(config.projects, name)]

\* _active_project_config(), lines 190-203 of the command module: the config
\* of the project the file of the session names
_active_project_config(config, selected, session_id) ==
    IF selected[session_id] = None THEN Fatal("Active MPD project required")
    ELSE project_config(config, selected[session_id])

\* fs.remove_directory_contents(dir): the directory, when there is one, emptied
remove_directory_contents(dir) == IF dir = {} THEN {} ELSE {{}}

\* The build tool run on a project: files left in the build area, the install
\* area made and filled
build(dirs) ==
    [dirs EXCEPT !.build = {Built}, !.install = {Built}]

\* The build command, lines 211-220 of the command module: the build area
\* emptied first under --clean
BuildEnds(s, clean, active) ==
    IF active.status # "ok"
    THEN /\ result' = Did("build", s, None, [clean |-> clean], active.status, active.error, FALSE)
         /\ UNCHANGED areas
    ELSE /\ result' = Did("build", s, active.cfg.name, [clean |-> clean], "ok", "", FALSE)
         /\ areas' = [areas EXCEPT ![active.cfg.name] =
                          build(IF clean
                                THEN [@ EXCEPT !.build = remove_directory_contents(@)]
                                ELSE @)]

Build(s, clean) ==
    /\ s \in alive
    /\ typed < MaxCommands
    /\ BuildEnds(s, clean, _active_project_config(doc, tokens, s))
    /\ typed' = typed + 1
    /\ UNCHANGED <<doc, srcdirs, proc, written, fn, tokens, alive, environ, environments,
                   instance>>

\* The options of zap, one at most
ZapOptions == {"", "--all", "--build", "--install"}

\* The zap parser, lines 161-187 of the command module: store_true flags in
\* a mutually exclusive group; zap_build, with default=True, is True whether
\* --build is given or not
zap_args(option) ==
    [zap_all |-> option = "--all", zap_build |-> TRUE, zap_install |-> option = "--install"]

\* if condition: fs.remove_directory_contents(config[area])
RemoveIf(condition, dirs, area) ==
    IF condition THEN [dirs EXCEPT ![area] = remove_directory_contents(@)] ELSE dirs

\* The zap command after the config is read, lines 283-289 of the command
\* module (lines 181-187 of the devel command module do the same on the
\* directories of its environment)
zap(args, dirs) ==
    RemoveIf(args.zap_build,
             RemoveIf(args.zap_all,
                      RemoveIf(args.zap_all, RemoveIf(args.zap_install, dirs, "install"),
                               "install"),
                      "build"),
             "build")

ZapEnds(s, option, active) ==
    IF active.status # "ok"
    THEN /\ result' = Did("zap", s, None, [option |-> option], active.status, active.error,
                          FALSE)
         /\ UNCHANGED areas
    ELSE /\ result' = Did("zap", s, active.cfg.name, [option |-> option], "ok", "", FALSE)
         /\ areas' = [areas EXCEPT ![active.cfg.name] = zap(zap_args(option), @)]

\* The zap command, lines 281-290 of the command module
Zap(s, option) ==
    /\ s \in alive
    /\ typed < MaxCommands
    /\ ZapEnds(s, option, _active_project_config(doc, tokens, s))
    /\ typed' = typed + 1
    /\ UNCHANGED <<doc, srcdirs, proc, written, fn, tokens, alive, environ, environments,
                   instance>>

\* rm_project(name, config, full): the entry removed from the document, the
\* build and local directories deleted, the environment uninstalled; under
\* --full the whole tree of top deleted, the install and the source
\* directories with it
rm_project(name, full) ==
    /\ doc' = [doc EXCEPT !.projects = Without(@, name)]
    /\ areas' = [areas EXCEPT ![name] = IF full THEN NoDirectories
                                        ELSE [@ EXCEPT !.build = {}, !.local = {}]]
    /\ srcdirs' = [srcdirs EXCEPT ![name] = IF full THEN {} ELSE @]
    /\ environments' = [dirs |-> environments.dirs \ {name},
                        names |-> environments.names \ {name}]

\* As RmProjectEnds, without the test for the active project
RmProjectEnds_NoTest(s, project, full, found) ==
    IF found.status # "ok"
    THEN /\ result' = Did("rm-project", s, project, [full |-> full], found.status,
                          found.error, FALSE)
         /\ UNCHANGED <<doc, areas, srcdirs, environments>>
    ELSE /\ result' = Did("rm-project", s, project, [full |-> full], "ok", "", TRUE)
         /\ rm_project(project, full)

\* Lines 270-279 of the command module, found being what project_config gave
RmProjectEnds(s, project, full, found) ==
    IF found.status # "ok"
    THEN /\ result' = Did("rm-project", s, project, [full |-> full], found.status,
                          found.error, FALSE)
         /\ UNCHANGED <<doc, areas, srcdirs, environments>>
    ELSE IF project = environ[s].MPD_PROJECT
    THEN /\ result' = Did("rm-project", s, project, [full |-> full], "die",
                          "Cannot remove active MPD project", FALSE)
         /\ UNCHANGED <<doc, areas, srcdirs, environments>>
    ELSE /\ result' = Did("rm-project", s, project, [full |-> full], "ok", "", TRUE)
         /\ rm_project(project, full)

\* The rm-project command, lines 269-279 of the command module
RmProject(s, project, full) ==
    /\ s \in alive
    /\ typed < MaxCommands
    /\ RmProjectEnds(s, project, full, project_config(doc, project))
    /\ typed' = typed + 1
    /\ UNCHANGED <<proc, written, fn, tokens, alive, environ, instance>>

\* The environment of a project activated in the shell of a session, or
\* deactivated: MPD_PROJECT set to its name, or unset
Export(s, project) ==
    /\ s \in alive
    /\ typed < MaxCommands
    /\ environ[s].MPD_PROJECT # project
    /\ environ' = [environ EXCEPT ![s].MPD_PROJECT = project]
    /\ result' = Did("env", s, project, <<>>, "ok", "", FALSE)
    /\ typed' = typed + 1
    /\ UNCHANGED <<doc, srcdirs, proc, written, fn, tokens, alive, environments, areas,
                   instance>>

\* As init, with the repository registered on every run
init_RegistersAgain(spack) ==
    IF ~spack.writeable
        THEN [status |-> "die", msg |-> "no permission to write", instance |-> spack]
    ELSE [status |-> "ok", msg |-> "",
          instance |-> [spack EXCEPT !.local_dir = TRUE, !.repos = Append(@, "local")]]

\* init(), lines 27-53 of the devel init module, spack being the instance:
\* fatal when the instance is not writeable; else the local directory made
\* (exist_ok) and, when its path is not among the user's repos, the
\* repository created there and added to them; else a warning
init(spack) ==
    IF ~spack.writeable
        THEN [status |-> "die", msg |-> "no permission to write", instance |-> spack]
    ELSE IF \A i \in 1..Len(spack.repos) : spack.repos[i] # "local"
        THEN [status |-> "ok", msg |-> "",
              instance |-> [spack EXCEPT !.local_dir = TRUE, !.repos = Append(@, "local")]]
    ELSE [status |-> "ok", msg |-> "already initialized",
          instance |-> [spack EXCEPT !.local_dir = TRUE]]

InitEnds(s, outcome) ==
    /\ instance' = outcome.instance
    /\ result' = [Did("init", s, None, <<>>, outcome.status, "", FALSE)
                     EXCEPT !.msg = outcome.msg]

\* The init command
InitCommand(s) ==
    /\ s \in alive
    /\ typed < MaxCommands
    /\ InitEnds(s, init(instance))
    /\ typed' = typed + 1
    /\ UNCHANGED <<doc, srcdirs, proc, written, fn, tokens, alive, environ, environments,
                   areas>>

\* The permissions of the Spack instance change
Chmod ==
    /\ typed < MaxCommands
    /\ instance' = [instance EXCEPT !.writeable = ~@]
    /\ result' = Did("chmod", NoSession, None, <<>>, "ok", "", FALSE)
    /\ typed' = typed + 1
    /\ UNCHANGED <<doc, srcdirs, proc, written, fn, tokens, alive, environ, environments,
                   areas>>

NextCommands ==
    \/ \E name \in Projects : CreateProject(name)
    \/ \E s \in Procs, name \in Projects : Select(s, name)
    \/ \E s \in Procs, project \in Projects \cup {None} : Export(s, project)
    \/ \E s \in Procs, clean \in BOOLEAN : Build(s, clean)
    \/ \E s \in Procs, option \in ZapOptions : Zap(s, option)
    \/ \E s \in Procs, project \in Projects, full \in BOOLEAN : RmProject(s, project, full)
    \/ \E s \in Procs : InitCommand(s)
    \/ Chmod

\* Two sessions running the commands one after another
SpecCommands == Init /\ [][NextCommands]_vars
----------------------------------------------------------------------------
(* Properties of the requirement merger, under Spec *)

IsRun == result.cmd \in {"new-project", "refresh"}

RunOk == IsRun /\ result.status = "ok"

\* The config of the project of the last command, in the document
TheConfig == Get(doc.projects, result.project)

\* The require list of package p of that project
Require(p) == Get(TheConfig.packages, p)

Contains(list, text) == \E i \in 1..Len(list) : list[i] = text

\* The tokens of the variants given to the last command, and their walk
InputTokens == Tokens(Join(result.variants))

InputWalk == Walk(WalkInit, InputTokens)

\* The package-scoped settings the last command was given for package p
Scoped(p) ==
    IF Has(InputWalk.package_variant_map, p) THEN Get(InputWalk.package_variant_map, p)
    ELSE <<>>

\* The name under which the classifier files a canonical variant string
NameOf(text) == handle_variant(TokenAt(text, 1)).name

Foo == Str("foo")

\* C1: after a successful run, every package-scoped setting given in the
\* input for a package under development is in that package's require list,
\* whether or not the package declares it, and is the only entry of its name
\* there: a general-scope or project-level setting of the same name is not.
C1_PackageScopedWins ==
    RunOk =>
        \A p \in Keys(TheConfig.packages) :
            \A i \in 1..Len(Scoped(p)) :
                /\ Contains(Require(p), Scoped(p)[i].v.variant)
                /\ \A j \in 1..Len(Require(p)) :
                       NameOf(Require(p)[j]) = Scoped(p)[i].k
                           => Require(p)[j] = Scoped(p)[i].v.variant

\* The example of the override precedence: general cxxstd=20, cxxstd=17 for foo
C1_Witness ==
    /\ RunOk
    /\ result.variants = <<<<"cxxstd", "=", "20">>, Foo, <<"cxxstd", "=", "17">>>>
    /\ Has(TheConfig.packages, Foo)
    /\ TheConfig.cxxstd = {_variant_pair(<<"20">>, <<"cxxstd", "=", "20">>)}
    /\ Require(Foo) = <<<<"@", "develop">>, <<"cxxstd", "=", "17">>,
                        <<"generator", "=", "make">>>>

\* C2 as stated: after a successful run every package under development has
\* "@develop" in its require list and, when a project-level compiler is set,
\* that compiler, whatever the input gave for the package.
C2_AlwaysForced ==
    RunOk =>
        \A p \in Keys(TheConfig.packages) :
            /\ Contains(Require(p), _DEVELOP_VARIANT.variant)
            /\ TheValue(TheConfig.compiler) # NoneValue
                   => Contains(Require(p), TheValue(TheConfig.compiler).variant)

\* C2 as amended: after a successful run the require list of every package
\* under development carries "@develop", and the project-level compiler when
\* one is set, whatever the stored list held for the two names; except that a
\* setting named version or compiler that the input gave for that package is
\* carried in place of the forced one.
C2_ForcedUnlessScoped ==
    RunOk =>
        \A p \in Keys(TheConfig.packages) :
            /\ ~Has(Scoped(p), Str("version"))
                   => Contains(Require(p), _DEVELOP_VARIANT.variant)
            /\ Has(Scoped(p), Str("version"))
                   => \A j \in 1..Len(Require(p)) :
                          NameOf(Require(p)[j]) = Str("version")
                              <=> Require(p)[j] = Get(Scoped(p), Str("version")).variant
            /\ (TheValue(TheConfig.compiler) # NoneValue /\ ~Has(Scoped(p), Str("compiler")))
                   => Contains(Require(p), TheValue(TheConfig.compiler).variant)
            /\ Has(Scoped(p), Str("compiler"))
                   => \A j \in 1..Len(Require(p)) :
                          NameOf(Require(p)[j]) = Str("compiler")
                              <=> Require(p)[j] = Get(Scoped(p), Str("compiler")).variant

\* A project-level compiler and another compiler for foo: the version is
\* forced, the package's own compiler is kept
C2_Witness ==
    /\ RunOk
    /\ result.variants = <<<<"%", "clang">>, Foo, <<"%", "gcc", "@", "9">>>>
    /\ Has(TheConfig.packages, Foo)
    /\ TheConfig.compiler = {_variant_pair(<<"clang">>, <<"%", "clang">>)}
    /\ UpTo(Require(Foo), 2) = <<<<"@", "develop">>, <<"%", "gcc", "@", "9">>>>

\* C5: a run without new variants that follows a successful run without new
\* variants, on the same project and the same source directories, succeeds
\* and leaves the document as the first run wrote it.
C5_Idempotent == result.again => (result.status = "ok" /\ ~result.changed)

\* A second run without new variants on a project whose package carries
\* requirements beyond the defaults
C5_Witness ==
    /\ result.again
    /\ result.status = "ok"
    /\ Has(TheConfig.packages, Foo)
    /\ Len(Require(Foo)) >= 5

\* C6: after a successful run the keys of the packages map are the
\* subdirectories of the source directory that are known packages.
C6_PackagesAreDirectories ==
    RunOk =>
        Keys(TheConfig.packages)
            = {d \in srcdirs[result.project] : d \in DOMAIN KnownPackages}

\* A refresh without new variants that changed the document and left no
\* package: the directory of the stored package was deleted
C6_Witness ==
    /\ RunOk
    /\ result.cmd = "refresh"
    /\ result.variants = <<>>
    /\ result.changed
    /\ srcdirs[result.project] = {}
    /\ TheConfig.packages = <<>>

\* The subdirectories of the project's source directory that are not known packages
UnknownDirs == {d \in srcdirs[result.project] : d \notin DOMAIN KnownPackages}

\* The walk of the input reaches its end
InputWalked == IsRun /\ ~TokenizationError(InputTokens) /\ ~InputWalk.die

\* C7 as stated: a run whose input names dependencies, on a source directory
\* of known packages only, completes and stores for each dependency the
\* ordered list of the variant strings given for it.
C7_DependencyRequirements ==
    (InputWalked /\ InputWalk.dependency_variant_map # <<>> /\ UnknownDirs = {}) =>
        /\ result.status = "ok"
        /\ \A i \in 1..Len(InputWalk.dependency_variant_map) :
               LET name == InputWalk.dependency_variant_map[i].k
                   given == InputWalk.dependency_variant_map[i].v
               IN  /\ Has(TheConfig.dependencies, name)
                   /\ Get(TheConfig.dependencies, name).require
                          = ordered_requirement_list(OnlyVariants(given))

\* C8 as stated: a run on a source directory with subdirectories that are not
\* known packages ends in the fatal unknown-package error that lists every
\* one of them, and writes nothing.
C8_UnknownPackagesListed ==
    (InputWalked /\ UnknownDirs # {}) =>
        /\ result.status = "die"
        /\ result.error = "unknown packages"
        /\ result.msg = Sorted(UnknownDirs)
        /\ ~result.changed

StructuralKinds ==
    {"DEPENDENCY", "START_EDGE_PROPERTIES", "END_EDGE_PROPERTIES", "UNQUALIFIED_PACKAGE_NAME"}

ClassifiedKinds ==
    {"COMPILER", "COMPILER_AND_VERSION", "KEY_VALUE_PAIR", "PROPAGATED_KEY_VALUE_PAIR",
     "BOOL_VARIANT", "PROPAGATED_BOOL_VARIANT", "VERSION"}

Unmarked ==
    {i \in 1..Len(InputTokens) :
        /\ InputTokens[i].kind = "UNQUALIFIED_PACKAGE_NAME"
        /\ (i = 1 \/ InputTokens[i - 1].kind \notin {"DEPENDENCY", "END_EDGE_PROPERTIES"})}

\* C17 as stated: a dependency marker affects only the next package-name
\* token; a package-name token that no dependency marker directly precedes
\* opens a package scope, an entry of the package-scoped map, also after an
\* earlier dependency scope.
C17_MarkerAffectsNextNameOnly ==
    InputWalked =>
        \A i \in Unmarked : Has(InputWalk.package_variant_map, InputTokens[i].value)

----------------------------------------------------------------------------
(* Properties of the requirement merger, under SpecEdges *)

\* Token i of the input is the package name P of a virtual-provider edge:
\* start-edge marker, virtuals=V, end-edge marker, P
ProviderAt(i) ==
    /\ i > 3
    /\ InputTokens[i].kind = "UNQUALIFIED_PACKAGE_NAME"
    /\ InputTokens[i - 1].kind = "END_EDGE_PROPERTIES"
    /\ InputTokens[i - 2].kind = "KEY_VALUE_PAIR"
    /\ UpTo(InputTokens[i - 2].value, 1) = Str("virtuals")
    /\ InputTokens[i - 3].kind = "START_EDGE_PROPERTIES"

\* The virtual package V of the edge whose package name is token i
VirtualAt(i) == From(InputTokens[i - 2].value, 2)

\* The package names of the edges of the input for virtual package V, in
\* input order
EdgeProviders(V) ==
    LET at == SelectSeq([i \in 1..Len(InputTokens) |-> i],
                        LAMBDA i : ProviderAt(i) /\ VirtualAt(i) = V)
    IN  [j \in 1..Len(at) |-> InputTokens[at[j]].value]

RECURSIVE IsSubseq(_, _)
\* a is b with some elements left out
IsSubseq(a, b) ==
    IF a = <<>> THEN TRUE
    ELSE IF b = <<>> THEN FALSE
    ELSE IF Head(a) = Head(b) THEN IsSubseq(Tail(a), Tail(b))
    ELSE IsSubseq(a, Tail(b))

\* The scopes the walk opened: the keys of the package and dependency maps
OpenedScopes ==
    Keys(InputWalk.package_variant_map) \cup Keys(InputWalk.dependency_variant_map)

\* Every variant map of the walk: the general one and the one of every scope
VariantMaps ==
    {InputWalk.general_variant_map}
        \cup {InputWalk.package_variant_map[i].v : i \in 1..Len(InputWalk.package_variant_map)}
        \cup {InputWalk.dependency_variant_map[i].v :
                  i \in 1..Len(InputWalk.dependency_variant_map)}

\* The walk of an input with edges: the package name of every edge is in the
\* provider list of its virtual package, in input order; a scope is opened
\* only by a package-name token that is not the package name of an edge; no
\* variant map has the key virtuals
EdgesWalked ==
    InputWalked =>
        /\ \A i \in 1..Len(InputTokens) :
               ProviderAt(i) =>
                   /\ Has(InputWalk.virtual_dependencies, VirtualAt(i))
                   /\ IsSubseq(EdgeProviders(VirtualAt(i)),
                               Get(InputWalk.virtual_dependencies, VirtualAt(i)))
        /\ \A name \in OpenedScopes :
               \E i \in 1..Len(InputTokens) :
                   /\ InputTokens[i].kind = "UNQUALIFIED_PACKAGE_NAME"
                   /\ InputTokens[i].value = name
                   /\ ~ProviderAt(i)
        /\ \A map \in VariantMaps : ~Has(map, Str("virtuals"))

\* The providers a successful run stored are those the walk collected
ProvidersStored ==
    (RunOk /\ InputWalk.virtual_dependencies # <<>>) =>
        /\ Has(TheConfig.dependencies, Str("all"))
        /\ Get(TheConfig.dependencies, Str("all")).providers
               = InputWalk.virtual_dependencies

\* A successful run on a stored project, given no start-edge marker, leaves
\* the stored dependencies, the entry "all" among them, as they were: the run
\* changes them only when its input has a start-edge marker
ProvidersKept ==
    \A r \in {result'} : \A after \in {doc'.projects} :
        (/\ r.cmd \in {"new-project", "refresh"}
         /\ r.status = "ok"
         /\ Has(doc.projects, r.project)
         /\ Get(after, r.project).dependencies # Get(doc.projects, r.project).dependencies)
            => \E tokens_from_str \in {Tokens(Join(r.variants))} :
                   \E i \in 1..Len(tokens_from_str) :
                       tokens_from_str[i].kind = "START_EDGE_PROPERTIES"

\* C18: for every virtual-provider edge of the input the walk appends the
\* package name to the provider list of the virtual package in input order,
\* opens no scope for it and writes no virtuals key; a successful run stores
\* the collected mapping under dependencies["all"].providers; a successful
\* run given no edge leaves a stored dependencies["all"] as it was.
C18_ProvidersCollected ==
    /\ [](EdgesWalked /\ ProvidersStored)
    /\ [][ProvidersKept]_vars

\* Two edges for one virtual package: both package names stored in input
\* order, one of them the name of a package under development that got no
\* scope of its own
C18_Witness ==
    /\ RunOk
    /\ result.variants = <<<<"^", "[", "virtuals", "=", "mpi", "]">>, <<"mpich">>,
                           <<"^", "[", "virtuals", "=", "mpi", "]">>, <<"foo">>>>
    /\ OpenedScopes = {}
    /\ srcdirs[result.project] = {Str("foo")}
    /\ Get(TheConfig.dependencies, Str("all")).providers
           = <<[k |-> Str("mpi"), v |-> <<Str("mpich"), Str("foo")>>]>>

\* The project config a run starts from: the stored entry for a refresh, the
\* one project_config_from_args makes for a new project
StartConfig(projects, r) ==
    IF r.cmd = "refresh" /\ Has(projects, r.project) THEN Get(projects, r.project)
    ELSE NewProjectConfig(r.project)

\* The precedence for one project-level variant: the general-scope value of
\* this run, else the value of the config the run started from, else the default
Precedence(general, stored, name, default) ==
    IF Has(general, name) THEN Get(general, name)
    ELSE IF stored # {} THEN TheValue(stored)
    ELSE default

\* A successful run leaves cxxstd and generator set in the project config,
\* each to the value the precedence gives
ValuesResolved ==
    \A r \in {result'} : \A after \in {doc'.projects} :
        (r.cmd \in {"new-project", "refresh"} /\ r.status = "ok") =>
            \A general \in {Walk(WalkInit, Tokens(Join(r.variants))).general_variant_map} :
                \A start \in {StartConfig(doc.projects, r)} :
                    /\ Get(after, r.project).cxxstd
                           = {Precedence(general, start.cxxstd, Str("cxxstd"), _DEFAULT_CXXSTD)}
                    /\ Get(after, r.project).generator
                           = {Precedence(general, start.generator, Str("generator"),
                                         _DEFAULT_GENERATOR)}

\* After a successful run every package that declares cxxstd (generator) and
\* was given no package-scoped cxxstd (generator) has the project-level value
\* in its require list, as the only entry of that name
PackagesResolved ==
    RunOk =>
        \A p \in Keys(TheConfig.packages) :
            /\ (Declares(p, Str("cxxstd")) /\ ~Has(Scoped(p), Str("cxxstd"))) =>
                   \A j \in 1..Len(Require(p)) :
                       NameOf(Require(p)[j]) = Str("cxxstd")
                           <=> Require(p)[j] = TheValue(TheConfig.cxxstd).variant
            /\ (Declares(p, Str("cxxstd")) /\ ~Has(Scoped(p), Str("cxxstd"))) =>
                   Contains(Require(p), TheValue(TheConfig.cxxstd).variant)
            /\ (Declares(p, Str("generator")) /\ ~Has(Scoped(p), Str("generator"))) =>
                   \A j \in 1..Len(Require(p)) :
                       NameOf(Require(p)[j]) = Str("generator")
                           <=> Require(p)[j] = TheValue(TheConfig.generator).variant
            /\ (Declares(p, Str("generator")) /\ ~Has(Scoped(p), Str("generator"))) =>
                   Contains(Require(p), TheValue(TheConfig.generator).variant)

\* C19: after every successful run cxxstd and generator are set in the
\* project config, each to the general-scope value of this run, else the value
\* already stored, else the default cxxstd=17, generator=make; every package
\* that declares cxxstd (generator) has the resolved value in its require list
\* unless the input gives it a package-scoped one.
C19_ProjectVariantsResolved ==
    /\ []PackagesResolved
    /\ [][ValuesResolved]_vars

\* Source tree {foo}, new project with input cxxstd=20
C19_Witness ==
    /\ RunOk
    /\ result.cmd = "new-project"
    /\ result.variants = <<<<"cxxstd", "=", "20">>>>
    /\ srcdirs[result.project] = {Str("foo")}
    /\ Require(Str("foo")) = <<<<"@", "develop">>, <<"cxxstd", "=", "20">>,
                                <<"generator", "=", "make">>>>

----------------------------------------------------------------------------
(* Properties of the serializer, under SpecSerializer *)

\* The number of "version" and "compiler" keys of a requirement map
Leading(requirements) ==
    (IF Has(requirements, Str("version")) THEN 1 ELSE 0)
    + (IF Has(requirements, Str("compiler")) THEN 1 ELSE 0)

\* C3: the list has one element per key of the map, the version entry first,
\* the compiler entry directly after it (first when there is no version) and
\* every other entry after both.
C3_VersionCompilerFirst ==
    fn.stage \in {"list", "parsed", "die"} =>
        /\ Len(fn.list) = Len(fn.requirements)
        /\ Has(fn.requirements, Str("version"))
               => fn.list[1] = Get(fn.requirements, Str("version"))
        /\ Has(fn.requirements, Str("compiler"))
               => fn.list[Leading(fn.requirements)] = Get(fn.requirements, Str("compiler"))
        /\ \A i \in 1..Len(fn.requirements) :
               fn.requirements[i].k \notin {Str("version"), Str("compiler")}
                   => \E j \in (Leading(fn.requirements) + 1)..Len(fn.list) :
                          fn.list[j] = fn.requirements[i].v

\* A map that holds another entry before its compiler and its version
C3_Witness ==
    /\ fn.stage = "list"
    /\ Len(fn.requirements) = 3
    /\ fn.requirements[1].k \notin {Str("version"), Str("compiler")}
    /\ fn.requirements[2].k = Str("compiler")
    /\ fn.requirements[3].k = Str("version")
    /\ fn.list = <<fn.requirements[3].v, fn.requirements[2].v, fn.requirements[1].v>>

Entries(d) == {d[i] : i \in 1..Len(d)}

\* C4: the serialized list of a requirement set built from canonical variant
\* strings, joined and tokenized again, is read back without error as the
\* same mapping from names to canonical variant strings.
C4_RoundTrip ==
    /\ fn.stage # "die"
    /\ fn.stage = "parsed" =>
           /\ Len(fn.parsed) = Len(fn.requirements)
           /\ Entries(fn.parsed) = Entries(fn.requirements)

\* A set read back in another order than it was built in
C4_Witness ==
    /\ fn.stage = "parsed"
    /\ Len(fn.requirements) = 3
    /\ Has(fn.requirements, Str("compiler"))
    /\ Has(fn.requirements, Str("version"))
    /\ fn.parsed # fn.requirements
    /\ Entries(fn.parsed) = Entries(fn.requirements)

----------------------------------------------------------------------------
(* Properties of the configuration store, under SpecConcurrent *)

\* The entry of project n in a document, if any
Entry(config, n) == IF Has(config.projects, n) THEN {Get(config.projects, n)} ELSE {}

\* C10: a command that writes the document writes the copy it read with its
\* own project's entry set: every other project's entry is as the command
\* read it, whatever another process wrote to the document in between.
C10_WriterInstallsItsCopy ==
    [][\A p \in Procs :
           (proc[p].pc # "idle" /\ proc'[p].pc = "idle" /\ result'.status = "ok") =>
               \A n \in Projects \ {proc[p].project_cfg.name} :
                   Entry(doc', n) = Entry(proc[p].config, n)]_vars

\* A lost update: both processes are done, the last command succeeded, and
\* the entry another command wrote without error is not in the document
C10_LostUpdate ==
    /\ \A p \in Procs : proc[p].pc = "idle"
    /\ result.status = "ok"
    /\ \E n \in Projects \ {result.project} :
           written[n] # {} /\ Entry(doc, n) # written[n]

----------------------------------------------------------------------------
(* Properties of the selected-project tokens and the store, under SpecSessions *)

\* The tokens that are stale: of a session whose process does not exist, or
\* naming a project that is not in the document
StaleTokens ==
    {t \in Procs : tokens[t] # None /\ (t \notin alive \/ ~Has(doc.projects, tokens[t]))}

\* C11 as stated: after update_cache returns, no selected-project token
\* remains whose session process does not exist or whose project is not in
\* the document, whatever the document is, one without projects included.
C11_NoStaleTokenLeft ==
    result.cmd = "update_cache" => StaleTokens = {}

\* The commands of the sessions on the store and on the tokens
SessionCommands == {"update", "rm_config", "select", "selected_project", "update_cache"}

\* A command run in one session leaves the token of every other session as it
\* was, when that session is running and its project is in the document;
\* select writes the token of its session and no other; selected_project
\* gives what the token of its session holds and writes nothing; update_cache
\* writes no token but that of its session, the others being kept or removed;
\* update and rm_config leave the tokens alone
SessionsIsolated ==
    \A r \in {result'} :
        r.cmd \in SessionCommands =>
            /\ \A b \in Procs \ {r.session} :
                   (b \in alive' /\ tokens[b] # None /\ Has(doc'.projects, tokens[b]))
                       => tokens'[b] = tokens[b]
            /\ r.cmd = "select" =>
                   /\ tokens'[r.session] = r.project
                   /\ \A b \in Procs \ {r.session} : tokens'[b] = tokens[b]
            /\ r.cmd = "selected_project" => (r.project = tokens[r.session] /\ tokens' = tokens)
            /\ r.cmd = "update_cache" =>
                   \A b \in Procs \ {r.session} : tokens'[b] \in {tokens[b], None}
            /\ r.cmd \in {"update", "rm_config"} => tokens' = tokens

\* C12: select, selected_project and the auto-selection of update_cache read
\* and write only the token of the calling session, and no command run in a
\* session changes or removes the selected project of another running
\* session whose selected project is still in the document.
C12_SessionIsolation == [][SessionsIsolated]_vars

\* update_cache of session s1, in the environment of mu2e, has selected mu2e
\* for s1 and has left the token that the running session s2 wrote for itself
C12_Witness ==
    /\ result.cmd = "update_cache"
    /\ result.session = "s1"
    /\ "s2" \in alive
    /\ Has(doc.projects, Str("mu2e"))
    /\ environ["s1"].active_environment = {{Str("mu2e")}}
    /\ tokens = [s \in Procs |-> Str("mu2e")]

\* update sets the entry of the project of the given config to the config
\* with the markers given, rm_config deletes the entry of the project named;
\* the entry of every other project is after the call what it was before;
\* rm_config fails exactly when the document or the entry is absent, and then
\* the document is what it was
OneEntryChanged ==
    \A r \in {result'} :
        r.cmd \in {"update", "rm_config"} =>
            /\ \A name \in Projects \ {r.project} :
                   EntryOf(doc'.projects, name) = EntryOf(doc.projects, name)
            /\ r.cmd = "update" =>
                   /\ r.status = "ok"
                   /\ doc'.exists
                   /\ EntryOf(doc'.projects, r.project)
                          = {[r.args.project_config EXCEPT
                                 !.status = IF r.args.status = None THEN @
                                            ELSE {r.args.status},
                                 !.installed = IF r.args.installed_at = None THEN @
                                               ELSE {r.args.installed_at}]}
            /\ r.cmd = "rm_config" =>
                   /\ r.status = "ok" <=> (doc.exists /\ Has(doc.projects, r.project))
                   /\ r.status = "ok" => ~Has(doc'.projects, r.project)
                   /\ r.status # "ok" => doc' = doc

\* C13: update sets exactly the entry of the project of its config, to that
\* config with the status and installed markers given; rm_config deletes
\* exactly the entry of the project named; both leave the entry of every
\* other project as it was; rm_config fails, the document unchanged, when the
\* document or the entry is absent.
C13_OneEntryChanged == [][OneEntryChanged]_vars

\* rm_config has deleted the entry of mu2e and left the entry of dune, which
\* update had stored with its status marker
C13_Witness ==
    /\ result.cmd = "rm_config"
    /\ result.status = "ok"
    /\ result.project = Str("mu2e")
    /\ doc.projects = <<[k |-> Str("dune"),
                         v |-> [NewProjectConfig(Str("dune")) EXCEPT !.status = {Str("ready")}]]>>

----------------------------------------------------------------------------
(* Properties of the commands, under SpecCommands *)

\* rm-project on the project MPD_PROJECT names ends fatally, with the
\* document, the directories and the environments as they were; on another
\* project that is in the document it ends with the entry removed and the
\* build and local directories deleted
RemovalGuarded ==
    \A r \in {result'} :
        r.cmd = "rm-project" =>
            /\ r.project = environ[r.session].MPD_PROJECT =>
                   /\ r.status = "die"
                   /\ doc' = doc
                   /\ areas' = areas
                   /\ srcdirs' = srcdirs
                   /\ environments' = environments
            /\ (r.project # environ[r.session].MPD_PROJECT /\ Has(doc.projects, r.project)) =>
                   /\ r.status = "ok"
                   /\ ~Has(doc'.projects, r.project)
                   /\ areas'[r.project].build = {}
                   /\ areas'[r.project].local = {}

\* C14: rm-project applied to the active project terminates fatally before
\* any removal, the project's entry in the document and its directories
\* unchanged; a project that is not the active one and is in the document is
\* passed on to removal.
C14_ActiveProjectNotRemoved == [][RemovalGuarded]_vars

\* rm-project has died on the active project, whose entry and build
\* directory are still there
C14_Witness ==
    /\ result.cmd = "rm-project"
    /\ result.error = "Cannot remove active MPD project"
    /\ environ[result.session].MPD_PROJECT = result.project
    /\ Has(doc.projects, result.project)
    /\ areas[result.project].build # {}

\* zap empties the areas its option names and leaves the other as it was
OnlyNamedAreasEmptied ==
    \A r \in {result'} :
        (r.cmd = "zap" /\ r.status = "ok") =>
            \A before \in {areas[r.project]} : \A after \in {areas'[r.project]} :
                /\ r.args.option = "--install" =>
                       /\ after.install = remove_directory_contents(before.install)
                       /\ after.build = before.build
                /\ r.args.option \in {"--build", ""} =>
                       /\ after.build = remove_directory_contents(before.build)
                       /\ after.install = before.install
                /\ r.args.option = "--all" =>
                       /\ after.build = remove_directory_contents(before.build)
                       /\ after.install = remove_directory_contents(before.install)

\* C15 as stated: zap empties only the areas its option names: the install
\* area and not the build area with --install, the build area only with
\* --build or without an option, both with --all.
C15_OnlyNamedAreasEmptied == [][OnlyNamedAreasEmptied]_vars

\* init on an instance that is not writeable ends fatally and makes and
\* registers nothing; on a writeable instance it succeeds and leaves the
\* local directory made and its repository among the user's repos once:
\* added when it was not there, with a warning and nothing added when it was
InitOnce ==
    \A r \in {result'} :
        r.cmd = "init" =>
            \A registered \in {\E i \in 1..Len(instance.repos) : instance.repos[i] = "local"} :
                /\ ~instance.writeable => (r.status = "die" /\ instance' = instance)
                /\ instance.writeable =>
                       /\ r.status = "ok"
                       /\ instance'.local_dir
                       /\ instance'.repos = IF registered THEN instance.repos
                                            ELSE Append(instance.repos, "local")
                       /\ Cardinality({i \in 1..Len(instance'.repos) :
                                          instance'.repos[i] = "local"}) = 1
                       /\ r.msg = IF registered THEN "already initialized" ELSE ""

\* C16: init on a writeable instance succeeds from a fresh home directory, it
\* makes the local directory and registers the local repository in the user
\* scope when it is not registered yet; run again it registers nothing and
\* only warns that the tool is initialized already; on an instance that is
\* not writeable it terminates fatally before it makes or registers anything.
C16_InitIdempotent == [][InitOnce]_vars

\* init run a second time: the warning, the repository registered once
C16_Witness ==
    /\ result.cmd = "init"
    /\ result.status = "ok"
    /\ result.msg = "already initialized"
    /\ instance = [writeable |-> TRUE, local_dir |-> TRUE, repos |-> <<"local">>]

====
